---- MODULE Spec2Model ----
(***************************************************************************)
(* A model of src/main.py: one run of query_sp500_top10 queries the model, *)
(* decodes its answer with json.loads, validates and enriches each entry   *)
(* with a price, writes the result to outputs/sp500_top10_<time>.json and  *)
(* appends "<file>: <sha256>" to hash_log.txt.                             *)
(*                                                                         *)
(* Python values are records of one shape (t, s, n, elems, items) so that  *)
(* any two of them can be compared.  Text is a sequence of lexical tokens  *)
(* [k, v]: punctuation, whitespace, string literals, numerals, null and    *)
(* anything else (prose, markdown fences).                                 *)
(***************************************************************************)
EXTENDS Integers, Sequences, FiniteSets, TLC

VARIABLES
  pc,                         \* where the run is: "query", "parse", "validate",
                              \* "returned", "exit", or "raised" (uncaught exception)
  response,                   \* response.choices[0].message.content
  content,                    \* the stripped text
  recommendations,            \* the decoded value, then the validated list
  idx,                        \* elements the validation loop has gone through
  validated_recommendations,
  returned,                   \* what query_sp500_top10 returned
  exception,                  \* the exception that ended the run, "" if none
  stdout,                     \* the lines printed by this run
  files,                      \* outputs/: file name -> bytes
  hash_log,                   \* hash_log.txt: its lines
  clock,                      \* UTC time in ticks
  runs                        \* runs of the program started

vars == <<pc, response, content, recommendations, idx, validated_recommendations,
          returned, exception, stdout, files, hash_log, clock, runs>>

locals == <<response, content, recommendations, idx, validated_recommendations,
            returned, exception, stdout>>

storage == <<files, hash_log>>

(* ------------------------------ bounds -------------------------------- *)

\* Longest list of entries the model answers with.
MaxRecs == 2

\* Last value of the clock, in ticks.
MaxClock == 2

\* Clock ticks per second: the clock is finer than the file name's time.
TicksPerSecond == 2

\* Runs of the program in the many-runs specification.
MaxRuns == 2

(* --------------------------- Python values ---------------------------- *)

PyNone == [t |-> "None", s |-> "", n |-> 0, elems |-> <<>>, items |-> <<>>]

PyStr(x) == [t |-> "str", s |-> x, n |-> 0, elems |-> <<>>, items |-> <<>>]

PyNum(x) == [t |-> "num", s |-> "", n |-> x, elems |-> <<>>, items |-> <<>>]

PyList(es) == [t |-> "list", s |-> "", n |-> 0, elems |-> es, items |-> <<>>]

\* A dict keeps its keys in insertion order: items is a sequence of [key, val].
PyDict(its) == [t |-> "dict", s |-> "", n |-> 0, elems |-> <<>>, items |-> its]

Item(k, v) == [key |-> k, val |-> v]

DictKeys(d) == {d.items[i].key : i \in 1..Len(d.items)}

\* d.get(k): the value under k, None without it.
DictGet(d, k) ==
  IF k \in DictKeys(d)
    THEN d.items[CHOOSE i \in 1..Len(d.items) : d.items[i].key = k].val
    ELSE PyNone

\* d.get(k, default)
DictGetOr(d, k, default) == IF k \in DictKeys(d) THEN DictGet(d, k) ELSE default

\* d[k] = v: replaces the value in place, or adds the key at the end.
DictSet(d, k, v) ==
  IF k \in DictKeys(d)
    THEN PyDict([i \in 1..Len(d.items) |->
                   IF d.items[i].key = k THEN Item(k, v) ELSE d.items[i]])
    ELSE PyDict(Append(d.items, Item(k, v)))

\* bool(v) as an `if v:` tests it.
Truthy(v) ==
  CASE v.t = "None" -> FALSE
    [] v.t = "str"  -> v.s # ""
    [] v.t = "num"  -> v.n # 0
    [] v.t = "list" -> v.elems # <<>>
    [] v.t = "dict" -> v.items # <<>>

(* ------------------------------- text --------------------------------- *)

Tok(k, v) == [k |-> k, v |-> v]

\* The numerals of the model; a numeral's text is its decimal form.
KnownNums == {0, 1, 140, 145, 150}

IndentWidth == 2

\* json's "\n" + " " * (indent * level)
NewlineIndent(indent, level) ==
  <<Tok("ws", "\n")>> \o [i \in 1..(indent * level) |-> Tok("ws", " ")]

\* indent < 0 stands for indent=None: separators (", ", ": ");
\* with an indent json separates items by "," and a new line.
ItemSeparator(indent, level) ==
  IF indent < 0 THEN <<Tok("punct", ","), Tok("ws", " ")>>
                ELSE <<Tok("punct", ",")>> \o NewlineIndent(indent, level)

KeySeparator == <<Tok("punct", ":"), Tok("ws", " ")>>

RECURSIVE Encode(_, _, _)
\* json.dumps(v, indent=indent) at nesting depth level.
Encode(v, indent, level) ==
  LET RECURSIVE Elems(_, _)
      Elems(es, i) ==
        IF i > Len(es) THEN <<>>
        ELSE (IF i > 1 THEN ItemSeparator(indent, level + 1) ELSE <<>>)
             \o Encode(es[i], indent, level + 1) \o Elems(es, i + 1)
      RECURSIVE Pairs(_, _)
      Pairs(its, i) ==
        IF i > Len(its) THEN <<>>
        ELSE (IF i > 1 THEN ItemSeparator(indent, level + 1) ELSE <<>>)
             \o <<Tok("str", its[i].key)>> \o KeySeparator
             \o Encode(its[i].val, indent, level + 1) \o Pairs(its, i + 1)
      Open(p)  == <<Tok("punct", p)>>
                    \o (IF indent < 0 THEN <<>> ELSE NewlineIndent(indent, level + 1))
      Close(p) == (IF indent < 0 THEN <<>> ELSE NewlineIndent(indent, level))
                    \o <<Tok("punct", p)>>
  IN CASE v.t = "None" -> <<Tok("null", "null")>>
       [] v.t = "str"  -> <<Tok("str", v.s)>>
       [] v.t = "num"  -> <<Tok("num", ToString(v.n))>>
       [] v.t = "list" ->
            IF v.elems = <<>> THEN <<Tok("punct", "["), Tok("punct", "]")>>
            ELSE Open("[") \o Elems(v.elems, 1) \o Close("]")
       [] v.t = "dict" ->
            IF v.items = <<>> THEN <<Tok("punct", "{"), Tok("punct", "}")>>
            ELSE Open("{") \o Pairs(v.items, 1) \o Close("}")

\* json.dumps(v): indent=None
json_dumps(v) == Encode(v, -1, 0)

\* json.dump(v, f, indent=2) writes this text
json_dump_indent(v) == Encode(v, IndentWidth, 0)

(* ----------------------------- json.loads ----------------------------- *)

\* The index of the first token at or after i that is not whitespace.
RECURSIVE SkipWs(_, _)
SkipWs(toks, i) ==
  IF i <= Len(toks) /\ toks[i].k = "ws" THEN SkipWs(toks, i + 1) ELSE i

ParseFail == [ok |-> FALSE, val |-> PyNone, pos |-> 0]

ParseOk(v, p) == [ok |-> TRUE, val |-> v, pos |-> p]

IsPunct(toks, i, p) == i <= Len(toks) /\ toks[i] = Tok("punct", p)

\* int(text) of a numeral
ParseNum(text) == CHOOSE n \in KnownNums : ToString(n) = text

RECURSIVE ParseValue(_, _)
\* The decoder's scan of one JSON value starting at token i: the value and the
\* index after it, or failure.
ParseValue(toks, i) ==
  LET RECURSIVE ParseElems(_, _)
      \* after "[" and the elements acc: the next element, then "," or "]"
      ParseElems(j, acc) ==
        LET r == ParseValue(toks, j)
            k == SkipWs(toks, r.pos)
        IN IF ~r.ok THEN ParseFail
           ELSE IF IsPunct(toks, k, ",") THEN ParseElems(k + 1, Append(acc, r.val))
           ELSE IF IsPunct(toks, k, "]") THEN ParseOk(PyList(Append(acc, r.val)), k + 1)
           ELSE ParseFail
      RECURSIVE ParsePairs(_, _)
      \* after "{" and the pairs of acc: "key": value, then "," or "}";
      \* a repeated key keeps its first place and takes the last value
      ParsePairs(j, acc) ==
        LET k  == SkipWs(toks, j)
            c  == SkipWs(toks, k + 1)
            r  == ParseValue(toks, c + 1)
            e  == SkipWs(toks, r.pos)
        IN IF ~(k <= Len(toks) /\ toks[k].k = "str") THEN ParseFail
           ELSE IF ~IsPunct(toks, c, ":") THEN ParseFail
           ELSE IF ~r.ok THEN ParseFail
           ELSE IF IsPunct(toks, e, ",")
                  THEN ParsePairs(e + 1, DictSet(acc, toks[k].v, r.val))
           ELSE IF IsPunct(toks, e, "}")
                  THEN ParseOk(DictSet(acc, toks[k].v, r.val), e + 1)
           ELSE ParseFail
      s == SkipWs(toks, i)
  IN IF s > Len(toks) THEN ParseFail
     ELSE CASE toks[s].k = "str"  -> ParseOk(PyStr(toks[s].v), s + 1)
            [] toks[s].k = "num"  ->
                 IF \E n \in KnownNums : ToString(n) = toks[s].v
                   THEN ParseOk(PyNum(ParseNum(toks[s].v)), s + 1) ELSE ParseFail
            [] toks[s].k = "null" -> ParseOk(PyNone, s + 1)
            [] toks[s] = Tok("punct", "[") ->
                 IF IsPunct(toks, SkipWs(toks, s + 1), "]")
                   THEN ParseOk(PyList(<<>>), SkipWs(toks, s + 1) + 1)
                   ELSE ParseElems(s + 1, <<>>)
            [] toks[s] = Tok("punct", "{") ->
                 IF IsPunct(toks, SkipWs(toks, s + 1), "}")
                   THEN ParseOk(PyDict(<<>>), SkipWs(toks, s + 1) + 1)
                   ELSE ParsePairs(s + 1, PyDict(<<>>))
            [] OTHER -> ParseFail

\* json_loads that stops after the first value and ignores what follows it.
json_loads_first_value(text) == ParseValue(text, 1)

\* json.loads(text): the whole text must be one JSON value, whitespace around
\* it allowed; anything else is a JSONDecodeError (ok = FALSE).
json_loads(text) ==
  LET r == ParseValue(text, 1)
  IN IF r.ok /\ SkipWs(text, r.pos) > Len(text) THEN r ELSE ParseFail

\* str.strip(): without the whitespace at both ends
RECURSIVE StripEnd(_)
StripEnd(text) ==
  IF text # <<>> /\ text[Len(text)].k = "ws"
    THEN StripEnd(SubSeq(text, 1, Len(text) - 1)) ELSE text

strip(text) ==
  LET s == SkipWs(text, 1) IN StripEnd(SubSeq(text, s, Len(text)))

(* ------------------------- the price provider -------------------------- *)

\* What stock.history(...) can answer: it raises, or gives the closing
\* prices of the sessions in the range, oldest first (empty: no data).
Histories ==
  { [raises |-> TRUE,  closes |-> <<>>],
    [raises |-> FALSE, closes |-> <<>>],
    [raises |-> FALSE, closes |-> <<150>>],
    [raises |-> FALSE, closes |-> <<140, 145>>] }

Returns(v) == [raised |-> FALSE, value |-> v]

Raises == [raised |-> TRUE, value |-> PyNone]

\* get_price_end_of_last_month, given the provider's answers to the query
\* for the last day of the prior month (exact) and to the one for the
\* sessions before it (fallback).  No provider error is caught.
get_price_end_of_last_month(exact, fallback) ==
  IF exact.raises THEN Raises
  ELSE IF exact.closes # <<>> THEN Returns(PyNum(exact.closes[Len(exact.closes)]))
  ELSE IF fallback.raises THEN Raises
  ELSE IF fallback.closes # <<>>
         THEN Returns(PyNum(fallback.closes[Len(fallback.closes)]))
  ELSE Returns(PyNone)

(* --------------------------- validation -------------------------------- *)

\* required_keys without "timestamp".
required_keys_five ==
  <<"ticker", "company_name", "recommendation", "confidence", "reasoning">>


required_keys ==
  <<"ticker", "company_name", "recommendation", "confidence", "reasoning", "timestamp">>

PriceKey == "price_prior_month_end"

\* [k for k in required_keys if k not in stock], stock a dict
missing_keys(stock) ==
  LET Absent(k) == k \notin DictKeys(stock) IN SelectSeq(required_keys, Absent)

\* What `for stock in recommendations` walks over: a list's elements, a
\* dict's keys, a string's characters (only the characters of the strings
\* of the model are known); None and numbers are not iterable.
Iterable(v) == v.t \in {"list", "dict", "str"}

IterElems(v) ==
  CASE v.t = "list" -> v.elems
    [] v.t = "dict" -> [i \in 1..Len(v.items) |-> PyStr(v.items[i].key)]
    [] v.t = "str"  -> CASE v.s = ""   -> <<>>
                         [] v.s = "no" -> <<PyStr("n"), PyStr("o")>>
    [] OTHER -> <<>>

\* The exception one loop iteration raises for an element that is no dict:
\* `k not in stock` is a TypeError for None and numbers; for a string or a
\* list it is evaluated, and then stock.get (line 93 when keys are missing,
\* line 96 when none is) is an AttributeError.
EntryException(stock) ==
  CASE stock.t \in {"None", "num"} -> "TypeError"
    [] stock.t \in {"str", "list"} -> "AttributeError"
    [] OTHER -> ""

(* ------------------------------ storage -------------------------------- *)

\* f"outputs/sp500_top10_{datetime.utcnow().strftime('%Y%m%d_%H%M%S')}.json":
\* the time of the clock cut to whole seconds.
Filename(now) ==
  [dir |-> "outputs", prefix |-> "sp500_top10_", stamp |-> now \div TicksPerSecond,
   ext |-> ".json"]

\* str.encode() and the utf-8 text file: one unit per token of (ASCII) text.
utf8_encode(text) == [i \in 1..Len(text) |-> [byte |-> text[i]]]

HexDigestLen == 64

\* hashlib.sha256(bytes).hexdigest(): 64 hex characters standing for the
\* bytes hashed (no collisions).
sha256_hexdigest(bytes) == [hexlen |-> HexDigestLen, of |-> bytes]

NoFiles == [p \in {} |-> <<>>]

\* open(path, "w") ... write: creates the file or replaces its content.
WriteFile(fs, path, bytes) ==
  [q \in (DOMAIN fs) \cup {path} |-> IF q = path THEN bytes ELSE fs[q]]

\* log.write(f"{filename}: {hash_value}\n")
LogLine(filename, hash_value) ==
  [path |-> filename, sep |-> ": ", digest |-> hash_value, end |-> "\n"]

\* AppendLine with the log opened with "w": the old lines are lost.
AppendLine_truncating(log, line) == <<line>>

\* open("hash_log.txt", "a") ... write(line)
AppendLine(log, line) == Append(log, line)

\* One printed line.
Line(msg, text, val, keys) == [msg |-> msg, text |-> text, val |-> val, keys |-> keys]

(* ------------------------- the model's answers ------------------------- *)

FieldValue(k, ticker) ==
  CASE k = "ticker"         -> ticker
    [] k = "company_name"   -> PyStr("Co")
    [] k = "recommendation" -> PyStr("Buy")
    [] k = "confidence"     -> PyNum(1)
    [] k = "reasoning"      -> PyStr("why")
    [] k = "timestamp"      -> PyStr("2026-02-02T00:00:00Z")

\* An entry in the prompt's format (lines 58-66) without the keys of missing.
Entry(ticker, missing) ==
  LET Present(k) == k \notin missing
      keys == SelectSeq(required_keys, Present)
  IN PyDict([i \in 1..Len(keys) |-> Item(keys[i], FieldValue(keys[i], ticker))])

Tickers == {PyStr("AAPL"), PyStr("MSFT"), PyStr("")}

\* Entries with every key, and entries without some.
Entries ==
  {Entry(tk, {}) : tk \in Tickers}
    \cup { Entry(PyStr("AAPL"), {"reasoning"}),
           Entry(PyStr("MSFT"), {"timestamp"}),
           Entry(PyStr("AAPL"), {"ticker", "reasoning"}) }

EntryLists(n) == {PyList(es) : es \in UNION {[1..m -> Entries] : m \in 0..n}}

\* Decodable answers that are not a list of entries.
OtherValues ==
  { PyDict(<<Item("recommendations", PyList(<<Entry(PyStr("AAPL"), {})>>))>>),
    PyDict(<<>>), PyNum(1), PyNone, PyStr(""), PyStr("no"),
    PyList(<<PyNum(1)>>), PyList(<<PyStr("AAPL")>>), PyList(<<PyNone>>),
    PyList(<<PyList(<<>>)>>), PyList(<<Entry(PyStr("AAPL"), {}), PyNum(1)>>) }

Ws(x) == Tok("ws", x)

Word(x) == Tok("other", x)

Padded(text) == <<Ws("\n")>> \o text \o <<Ws(" "), Ws("\n")>>

\* A markdown fence; written with tildes.
Fenced(text) == <<Word("~~~json"), Ws("\n")>> \o text \o <<Ws("\n"), Word("~~~")>>

Prose(text) ==
  <<Word("Here"), Ws(" "), Word("~~~json"), Ws(" ")>> \o text
    \o <<Ws(" "), Word("~~~"), Ws(" "), Word("trailing")>>

Trailing(text) == text \o <<Ws("\n"), Word("Thanks")>>

Truncated(text) == SubSeq(text, 1, Len(text) - 1)

Garbage == <<Word("I"), Ws(" "), Word("cannot"), Ws(" "), Word("comply.")>>

\* The answers of the one-run specification: every list of up to MaxRecs
\* entries and the other values as compact JSON; the short ones also
\* indented, padded, fenced, inside prose, followed by prose and cut short.
Texts ==
  LET short == EntryLists(1) \cup OtherValues
  IN {json_dumps(v) : v \in EntryLists(MaxRecs) \cup OtherValues}
       \cup {json_dump_indent(v) : v \in short}
       \cup {Padded(json_dumps(v)) : v \in short}
       \cup {Fenced(json_dumps(v)) : v \in short}
       \cup {Prose(json_dumps(v)) : v \in short}
       \cup {Trailing(json_dumps(v)) : v \in short}
       \cup {Truncated(json_dumps(v)) : v \in short}
       \cup {Garbage, Padded(Garbage), <<>>}

\* The answers of the many-runs specification.
FewTexts ==
  { Garbage,
    json_dumps(PyList(<<>>)),
    json_dumps(PyList(<<Entry(PyStr("AAPL"), {})>>)),
    json_dumps(PyList(<<Entry(PyStr("MSFT"), {"reasoning"})>>)),
    Fenced(json_dumps(PyList(<<Entry(PyStr("AAPL"), {})>>))),
    json_dumps(PyNum(1)),
    json_dumps(PyList(<<PyNum(1)>>)) }

(* ------------------------------ the run -------------------------------- *)

Init ==
  /\ pc = "query"
  /\ response = <<>>
  /\ content = <<>>
  /\ recommendations = PyNone
  /\ idx = 0
  /\ validated_recommendations = <<>>
  /\ returned = PyNone
  /\ exception = ""
  /\ stdout = <<>>
  /\ files = NoFiles
  /\ hash_log = <<>>
  /\ clock = 0
  /\ runs = 1

\* Time passes.
Tick ==
  /\ clock < MaxClock
  /\ clock' = clock + 1
  /\ UNCHANGED <<pc, locals, storage, runs>>

\* Lines 72-77: the model answers with text, which is stripped.
QueryModel(answers) ==
  /\ pc = "query"
  /\ \E text \in answers :
       /\ response' = text
       /\ content' = strip(text)
  /\ pc' = "parse"
  /\ UNCHANGED <<recommendations, idx, validated_recommendations, returned, exception,
                 stdout, storage, clock, runs>>

\* Lines 72-75: the call to the model raises; nothing catches it.
QueryModelFails ==
  /\ pc = "query"
  /\ pc' = "raised"
  /\ exception' = "APIError"
  /\ UNCHANGED <<response, content, recommendations, idx, validated_recommendations,
                 returned, stdout, storage, clock, runs>>

\* Lines 80-81: the text decodes.
ParseSucceeds ==
  /\ pc = "parse"
  /\ json_loads(content).ok
  /\ recommendations' = json_loads(content).val
  /\ validated_recommendations' = <<>>
  /\ idx' = 0
  /\ pc' = "validate"
  /\ UNCHANGED <<response, content, returned, exception, stdout, storage, clock, runs>>

\* ParseFails without the except clause: the JSONDecodeError ends the run.
ParseFails_uncaught ==
  /\ pc = "parse"
  /\ ~json_loads(content).ok
  /\ pc' = "raised"
  /\ exception' = "JSONDecodeError"
  /\ UNCHANGED <<response, content, recommendations, idx, validated_recommendations,
                 returned, stdout, storage, clock, runs>>

\* Lines 82-85: JSONDecodeError: two lines printed, None returned.
ParseFails ==
  /\ pc = "parse"
  /\ ~json_loads(content).ok
  /\ stdout' = stdout \o <<Line("Failed to parse GPT JSON. Raw output:", <<>>, PyNone, <<>>),
                           Line("", content, PyNone, <<>>)>>
  /\ returned' = PyNone
  /\ pc' = "returned"
  /\ UNCHANGED <<response, content, recommendations, idx, validated_recommendations,
                 exception, storage, clock, runs>>

\* Line 90: the decoded value cannot be iterated.
LoopNotIterable ==
  /\ pc = "validate"
  /\ ~Iterable(recommendations)
  /\ pc' = "raised"
  /\ exception' = "TypeError"
  /\ UNCHANGED <<response, content, recommendations, idx, validated_recommendations,
                 returned, stdout, storage, clock, runs>>

InLoop ==
  /\ pc = "validate"
  /\ Iterable(recommendations)
  /\ idx < Len(IterElems(recommendations))

stock == IterElems(recommendations)[idx + 1]

\* Lines 91-96: the element is no dict.
EntryRaises ==
  /\ InLoop
  /\ stock.t # "dict"
  /\ pc' = "raised"
  /\ exception' = EntryException(stock)
  /\ UNCHANGED <<response, content, recommendations, idx, validated_recommendations,
                 returned, stdout, storage, clock, runs>>

\* Lines 91-94: keys are missing: a warning, and on to the next element.
EntrySkipped ==
  /\ InLoop
  /\ stock.t = "dict"
  /\ missing_keys(stock) # <<>>
  /\ stdout' = Append(stdout, Line("Missing keys, skipping entry", <<>>,
                                   DictGetOr(stock, "ticker", PyStr("unknown")),
                                   missing_keys(stock)))
  /\ idx' = idx + 1
  /\ UNCHANGED <<pc, response, content, recommendations, validated_recommendations,
                 returned, exception, storage, clock, runs>>

\* Lines 95-99: no key is missing: the price is looked up when the ticker is
\* truthy, and the entry is kept.  The dict is changed in place, so the
\* element of the decoded list changes with it.
EntryKept ==
  /\ InLoop
  /\ stock.t = "dict"
  /\ missing_keys(stock) = <<>>
  /\ \E exact \in Histories, fallback \in Histories :
       LET ticker == DictGet(stock, "ticker")
           price  == get_price_end_of_last_month(exact, fallback)
           kept   == IF Truthy(ticker) THEN DictSet(stock, PriceKey, price.value)
                     ELSE stock
       IN IF Truthy(ticker) /\ price.raised
            THEN /\ pc' = "raised"
                 /\ exception' = "ProviderError"
                 /\ UNCHANGED <<recommendations, idx, validated_recommendations>>
            ELSE /\ validated_recommendations' = Append(validated_recommendations, kept)
                 /\ recommendations' =
                      [recommendations EXCEPT !.elems[idx + 1] = kept]
                 /\ idx' = idx + 1
                 /\ UNCHANGED <<pc, exception>>
  /\ UNCHANGED <<response, content, returned, stdout, storage, clock, runs>>

\* SaveOutput that writes the file and forgets the hash log.
SaveOutput_without_log ==
  /\ pc = "validate"
  /\ Iterable(recommendations)
  /\ idx = Len(IterElems(recommendations))
  /\ recommendations' = PyList(validated_recommendations)
  /\ files' = WriteFile(files, Filename(clock),
                        utf8_encode(json_dump_indent(PyList(validated_recommendations))))
  /\ returned' = PyList(validated_recommendations)
  /\ pc' = "returned"
  /\ UNCHANGED <<response, content, idx, validated_recommendations, exception, stdout,
                 hash_log, clock, runs>>

\* Lines 101-116: the loop is over: the list is written to a file named
\* after the time, its hash is appended to the log, two lines are printed.
SaveOutput ==
  /\ pc = "validate"
  /\ Iterable(recommendations)
  /\ idx = Len(IterElems(recommendations))
  /\ LET result     == PyList(validated_recommendations)
         filename   == Filename(clock)
         hash_value == sha256_hexdigest(utf8_encode(json_dumps(result)))
     IN /\ recommendations' = result
        /\ files' = WriteFile(files, filename, utf8_encode(json_dump_indent(result)))
        /\ hash_log' = AppendLine(hash_log, LogLine(filename, hash_value))
        /\ stdout' = stdout \o <<Line("Saved top 10 S&P500 recommendations to", <<>>,
                                      PyNum(filename.stamp), <<>>),
                                 Line("SHA256 hash:", hash_value.of, PyNone, <<>>)>>
        /\ returned' = result
  /\ pc' = "returned"
  /\ UNCHANGED <<response, content, idx, validated_recommendations, exception, clock, runs>>

\* Lines 120-121: the caller prints what was returned.
ShowResult ==
  /\ pc = "returned"
  /\ stdout' = Append(stdout, Line("", json_dump_indent(returned), PyNone, <<>>))
  /\ pc' = "exit"
  /\ UNCHANGED <<response, content, recommendations, idx, validated_recommendations,
                 returned, exception, storage, clock, runs>>

\* The program is started again; the files and the log are still there.
NextRun ==
  /\ pc \in {"exit", "raised"}
  /\ runs < MaxRuns
  /\ runs' = runs + 1
  /\ pc' = "query"
  /\ response' = <<>>
  /\ content' = <<>>
  /\ recommendations' = PyNone
  /\ idx' = 0
  /\ validated_recommendations' = <<>>
  /\ returned' = PyNone
  /\ exception' = ""
  /\ stdout' = <<>>
  /\ UNCHANGED <<storage, clock>>

RunStep ==
  \/ QueryModelFails
  \/ ParseSucceeds
  \/ ParseFails
  \/ LoopNotIterable
  \/ EntryRaises
  \/ EntrySkipped
  \/ EntryKept
  \/ SaveOutput
  \/ ShowResult

\* One run of the program, any answer of Texts.
Next == Tick \/ QueryModel(Texts) \/ RunStep

Spec == Init /\ [][Next]_vars

\* Run after run, the answers of FewTexts.
NextRuns == Tick \/ QueryModel(FewTexts) \/ RunStep \/ NextRun

SpecRuns == Init /\ [][NextRuns]_vars

(* ------------------------------ properties ----------------------------- *)

\* The run is over.
Ended == pc \in {"returned", "exit", "raised"}

\* The run returned a list: it went through SaveOutput.
Saved == pc \in {"returned", "exit"} /\ returned.t = "list"

\* The model answered and the answer has been decoded or refused.
AfterParse == pc \notin {"query", "parse"} /\ exception # "APIError"

\* The run printed the failure notice and returned None.
ParseFailedPath == pc \in {"returned", "exit"} /\ returned = PyNone

\* The value the answer decodes to.
Decoded == json_loads(content).val

IsEntryList(v) == v.t = "list" /\ \A i \in 1..Len(v.elems) : v.elems[i].t = "dict"

FiveFields == {"ticker", "company_name", "recommendation", "confidence", "reasoning"}

SixFields == FiveFields \cup {"timestamp"}

SixFieldsInOrder ==
  <<"ticker", "company_name", "recommendation", "confidence", "reasoning", "timestamp">>

\* The entries of es that hold every field of fields, in order.
EntriesWith(es, fields) ==
  LET Has(r) == fields \subseteq DictKeys(r) IN SelectSeq(es, Has)

\* The entry without its price.
WithoutPrice(d) ==
  LET Other(it) == it.key # PriceKey IN PyDict(SelectSeq(d.items, Other))

WithoutPrices(es) == [i \in 1..Len(es) |-> WithoutPrice(es[i])]

\* The text without its whitespace.
NoWs(text) == LET Solid(tok) == tok.k # "ws" IN SelectSeq(text, Solid)

(* C1 *)

\* C1 as stated: every run, whatever its outcome, ends having written
\* exactly one artifact file and having appended exactly one line to the
\* hash log.
C1_EveryRunSaves ==
  Ended => Cardinality(DOMAIN files) = 1 /\ Len(hash_log) = 1

\* C1 amended: a run writes exactly one artifact file and appends exactly
\* one line to the hash log when, and only when, it returns a list (the
\* answer decoded and nothing raised); a run whose model call fails, whose
\* answer does not decode or that raises writes no file and appends no line.
C1_SavesExactlyWhenListReturned ==
  /\ Saved => Cardinality(DOMAIN files) = 1 /\ Len(hash_log) = 1
  /\ ~Saved => files = NoFiles /\ hash_log = <<>>
  /\ Ended => (Saved <=> (AfterParse /\ json_loads(content).ok /\ exception = ""))

\* C1: a run that kept two entries, saved them and logged one line.
C1_Witness ==
  /\ pc = "exit"
  /\ returned.t = "list"
  /\ Len(returned.elems) = 2
  /\ Cardinality(DOMAIN files) = 1
  /\ Len(hash_log) = 1

(* C2 *)

\* C2 as stated: the digest of every line of the hash log is the SHA-256 of
\* the bytes of the file the line names.
C2_DigestIsOfFileBytes ==
  \A i \in 1..Len(hash_log) :
    /\ hash_log[i].path \in DOMAIN files
    /\ hash_log[i].digest = sha256_hexdigest(files[hash_log[i].path])

(* C3 *)

\* The answer is the text with whitespace removed from both ends only.
IsStripped(text, raw) ==
  /\ text = <<>> \/ (text[1].k # "ws" /\ text[Len(text)].k # "ws")
  /\ \E a \in 0..Len(raw) :
       /\ a + Len(text) <= Len(raw)
       /\ text = SubSeq(raw, a + 1, a + Len(text))
       /\ \A i \in 1..Len(raw) : (i <= a \/ i > a + Len(text)) => raw[i].k = "ws"

\* A debug artifact: error set, raw_response the answer.
DebugArtifact(raw) == [error |-> TRUE, raw_response |-> raw]

\* C3 as stated: when the answer does not decode, the run does not raise
\* and persists a debug artifact whose raw_response is the answer verbatim.
C3_DebugArtifactSaved ==
  (AfterParse /\ ~json_loads(content).ok) =>
     /\ pc # "raised"
     /\ returned = PyNone
     /\ \E f \in DOMAIN files : files[f] = DebugArtifact(response)

\* C3 amended: when the answer does not decode, the run does not raise; it
\* prints a failure notice and then the answer with the whitespace at its
\* ends stripped, returns None, and writes no file and no hash-log line.
C3_FailureIsPrintedNotSaved ==
  (AfterParse /\ ~json_loads(content).ok) =>
     /\ ParseFailedPath
     /\ exception = ""
     /\ Len(stdout) >= 2
     /\ stdout[1].msg = "Failed to parse GPT JSON. Raw output:"
     /\ IsStripped(stdout[2].text, response)
     /\ files = NoFiles
     /\ hash_log = <<>>

\* C3: a run answered with padded prose printed it stripped and returned None.
C3_Witness ==
  /\ pc = "exit"
  /\ response = Padded(Garbage)
  /\ returned = PyNone
  /\ stdout[2].text = Garbage

(* C4 *)

HasWord(text) == \E i \in 1..Len(text) : text[i].k = "other"

\* Some span of the text, from a "[" or "{" to a "]" or "}", decodes.
HasJsonSpan(text) ==
  \E i \in 1..Len(text) :
    /\ text[i] \in {Tok("punct", "["), Tok("punct", "{")}
    /\ \E j \in i..Len(text) :
         /\ text[j] \in {Tok("punct", "]"), Tok("punct", "}")}
         /\ json_loads(SubSeq(text, i, j)).ok

\* The values whose JSON the answers of Texts are made from.
AnswerValues == EntryLists(MaxRecs) \cup OtherValues

WholeJsonTexts == {NoWs(json_dumps(v)) : v \in AnswerValues}

\* The text is, whitespace apart, the JSON of a value of AnswerValues.
IsWholeJson(text) == NoWs(text) \in WholeJsonTexts

\* C4 as stated: an answer that is not JSON as a whole but holds a JSON
\* object or array decodes to it; only an answer with no decodable span is
\* a parse failure.
C4_EmbeddedJsonDecodes ==
  AfterParse => (ParseFailedPath <=> ~(IsWholeJson(content) \/ HasJsonSpan(content)))

\* C4 amended: the answer is decoded only as a whole, its whitespace apart:
\* an answer with prose or fences around (or after) its JSON is a parse
\* failure, as is every answer that is not JSON as a whole; an answer that
\* is JSON as a whole decodes to the value it is the JSON of.
C4_DecodedOnlyAsAWhole ==
  AfterParse =>
     /\ HasWord(content) => ParseFailedPath
     /\ ParseFailedPath => ~IsWholeJson(content)
     /\ (pc = "validate" /\ idx = 0) =>
          NoWs(json_dumps(recommendations)) = NoWs(content)

\* C4: a fenced JSON list was refused and nothing was saved.
C4_Witness ==
  /\ pc = "exit"
  /\ content = Fenced(json_dumps(PyList(<<Entry(PyStr("AAPL"), {})>>)))
  /\ HasJsonSpan(content)
  /\ returned = PyNone
  /\ files = NoFiles

(* C5 *)

\* The elements of the decoded list the loop has gone through.
Examined == SubSeq(Decoded.elems, 1, idx)

IsWarning(line) == line.msg = "Missing keys, skipping entry"

\* The warning for a rejected entry: its ticker, or "unknown", and the
\* missing ones of the six fields.
WarningFor(r) ==
  LET Absent(k) == k \notin DictKeys(r)
  IN Line("Missing keys, skipping entry", <<>>,
          IF "ticker" \in DictKeys(r) THEN DictGet(r, "ticker") ELSE PyStr("unknown"),
          SelectSeq(SixFieldsInOrder, Absent))

\* The warnings for the entries of es that lack a field of fields.
WarningsFor(es, fields) ==
  LET Lacks(r) == ~(fields \subseteq DictKeys(r))
      rejected == SelectSeq(es, Lacks)
  IN [i \in 1..Len(rejected) |-> WarningFor(rejected[i])]

\* The answer decoded to a list of objects and the loop is under way or over.
ValidatingEntries == AfterParse /\ json_loads(content).ok /\ IsEntryList(Decoded)

\* C5 as stated: the entries kept are exactly those with the five fields
\* ticker, company_name, recommendation, confidence and reasoning, in order.
C5_FiveFieldsRequired ==
  ValidatingEntries =>
     WithoutPrices(validated_recommendations) = EntriesWith(Examined, FiveFields)

\* C5 amended: the required fields are six, timestamp with the five.  At
\* every point of the loop, and when the run returns, the entries kept are
\* exactly the examined ones that hold all six, in their order; each of the
\* others is skipped on its own with a warning naming its missing fields,
\* and the loop goes on with the next entry.
C5_SixFieldsRequired ==
  ValidatingEntries =>
     /\ WithoutPrices(validated_recommendations) = EntriesWith(Examined, SixFields)
     /\ SelectSeq(stdout, IsWarning) = WarningsFor(Examined, SixFields)
     /\ Saved => /\ idx = Len(Decoded.elems)
                 /\ returned = PyList(validated_recommendations)

\* C5: of two entries the one without reasoning was skipped, the other kept.
C5_Witness ==
  /\ pc = "exit"
  /\ Decoded = PyList(<<Entry(PyStr("AAPL"), {"reasoning"}), Entry(PyStr("MSFT"), {})>>)
  /\ Len(returned.elems) = 1
  /\ DictGet(returned.elems[1], "ticker") = PyStr("MSFT")
  /\ stdout[1].keys = <<"reasoning">>

(* C6 *)

\* C6 as stated: the output has one entry per valid entry, in the same
\* order, each with the price field holding a number or None and its other
\* fields unchanged.
C6_EveryEntryHasPriceField ==
  (ValidatingEntries /\ Saved) =>
     LET valid == EntriesWith(Decoded.elems, SixFields)
         out   == returned.elems
     IN /\ Len(out) = Len(valid)
        /\ \A i \in 1..Len(out) :
             /\ PriceKey \in DictKeys(out[i])
             /\ DictGet(out[i], PriceKey).t \in {"num", "None"}
             /\ WithoutPrice(out[i]) = valid[i]

(* C7 *)

\* C7 as stated: a price lookup that fails, the provider raising included,
\* never ends the run.
C7_LookupNeverAborts == ~(pc = "raised" /\ exception = "ProviderError")

(* C8 *)

\* C8 as stated: after N runs the hash log holds exactly N lines.
C8_OneLinePerRun == pc \in {"exit", "raised"} => Len(hash_log) = runs

\* The step of SaveOutput.
SaveStep == pc = "validate" /\ pc' = "returned"

\* A line of the form <path>: <64-hex-char digest>, the path of a file.
WellFormedLine(line, fs) ==
  /\ line.path \in DOMAIN fs
  /\ line.sep = ": "
  /\ line.digest.hexlen = 64
  /\ line.end = "\n"

\* C8 amended: the hash log is append-only across runs: a run appends one
\* line <path>: <64-hex-char digest> when it reaches the save, and none when
\* it ends before (model call error, undecodable answer, exception), so that
\* N runs leave at most N lines; no step alters, reorders or removes a line.
C8_AppendOnly ==
  [][ /\ SaveStep => /\ Len(hash_log') = Len(hash_log) + 1
                     /\ SubSeq(hash_log', 1, Len(hash_log)) = hash_log
                     /\ WellFormedLine(hash_log'[Len(hash_log')], files')
      /\ ~SaveStep => hash_log' = hash_log
      /\ Len(hash_log') <= runs' ]_vars

\* C8: a second run that did not decode its answer left the first run's line.
C8_Witness ==
  /\ runs = 2
  /\ pc = "exit"
  /\ returned = PyNone
  /\ Len(hash_log) = 1

(* C9 *)

\* C9 as stated: every save uses a path no earlier save used, two saves
\* within one second included.
C9_PathsDistinct ==
  \A i \in 1..Len(hash_log) : \A j \in 1..Len(hash_log) :
    i # j => hash_log[i].path # hash_log[j].path

(* C10 *)

\* C10 as stated: when the decoded value is not a list of objects the run
\* does not raise, keeps no entry and still saves.
C10_MalformedShortCircuits ==
  (AfterParse /\ json_loads(content).ok /\ ~IsEntryList(Decoded)) =>
     /\ pc # "raised"
     /\ validated_recommendations = <<>>
     /\ Ended => (Saved /\ returned = PyList(<<>>))

====
